---- MODULE Spec2Model ----
(***************************************************************************)
(* Model of the league engine of match_builder_backend:                    *)
(*   - the League document and its pre('save') hook (models/League.js),    *)
(*   - the league controller handlers joinLeague, generateMatches,         *)
(*     updateMatchResult (with recalculateStandings), updateStandings,     *)
(*     setLeagueWinner and the reads getPreviousWinners and                *)
(*     getCelebratingWinners (controllers/leagueController.js),            *)
(*   - the WebSocket registry and broadcastToAll (server.js).              *)
(* The specifications share the variables:                                 *)
(*   SchedSpec walks the fixture loop of generateMatches round by round    *)
(*             for every team count 2..MaxSchedTeams;                      *)
(*   Spec      is the state machine of one league document, each handler   *)
(*             one atomic action that ends with the pre('save') hook;      *)
(*   StandingsSpec  starts from a freshly scheduled league and takes only  *)
(*             result submissions and standings updates;                   *)
(*   ClinchSpec  takes the last results of a league of ClinchTeams teams;  *)
(*   CrownSpec   starts like StandingsSpec and takes result submissions,   *)
(*             manual crownings and clock ticks;                           *)
(*   CallSpec    serves concurrent updateMatchResult calls in two steps,   *)
(*             the read of the league and the write of save();             *)
(*   ReadSpec    adds reads of the winners' history to CrownSpec;          *)
(*   RejectSpec  takes the requests of Spec on a new league and keeps the  *)
(*             ones that were turned down;                                 *)
(*   NotifySpec  serves one updateMatchResult call while WebSocket         *)
(*             connections are opened, closed and fail (server.js).        *)
(* Not modelled: ids, logos, match dates, groupName, the admin check (the  *)
(* caller is the league admin), league deletion and the raw                *)
(* findByIdAndUpdate of updateLeague.                                      *)
(***************************************************************************)
EXTENDS Integers, Sequences, FiniteSets, TLC

\* ------------------------------------------------------------------ bounds
MaxSchedTeams == 12   \* largest team count walked by SchedSpec
MaxTeams      == 3    \* league.maxParticipants of the modelled league
MaxGoals      == 1    \* largest goal count submitted in a result
MaxScored     == 2    \* results are submitted for the first MaxScored matches
MaxHistory    == 1    \* manual crownings explored per league
MaxTime       == 3    \* last instant the clock reaches
MaxCalls      == 2    \* result submissions in flight at once (CallSpec)
MaxSockets    == 2    \* WebSocket connections accepted in one run (NotifySpec)
ClinchTeams   == 10   \* teams of the league of ClinchSpec
ClinchOpen    == 2    \* matches of that league still unplayed at the start

\* -------------------------------------------------------- league constants
\* the clock counts periods of three days
StartDate       == 1  \* league.startDate
EndDate         == 2  \* league.endDate
CelebrationSpan == 1  \* 3 * 24 * 60 * 60 * 1000 ms
RoundCap        == 7  \* rounds played by leagues of RoundCapTeams or more
RoundCapTeams   == 10
ClinchPercent   == 95

VARIABLES
  \* the League document
  participants, teams, matches, status, winner, isCelebrating,
  celebrationEnds, previousWinners,
  \* the clock, and the last request that was served (or the clock tick)
  now, lastOp,
  \* whether lastOp also keeps the requests that were turned down (RejectSpec)
  keepsRejected,
  \* locals of the fixture loop of generateMatches (SchedSpec)
  teamNames, round, rotated, roundMatches, pairIdx, matchNumber, newMatches, pc,
  \* the updateMatchResult calls in flight and the messages broadcast (CallSpec)
  calls, events,
  \* the WebSocket connections accepted so far and the registry of server.js
  sockets, connectedClients

leagueVars == <<participants, teams, matches, status, winner, isCelebrating,
                celebrationEnds, previousWinners>>
schedVars  == <<teamNames, round, rotated, roundMatches, pairIdx, matchNumber,
                newMatches, pc>>
callVars   == <<calls, events>>
wsVars     == <<sockets, connectedClients>>
vars       == <<leagueVars, now, lastOp, keepsRejected, schedVars, callVars, wsVars>>

\* ------------------------------------------------------ fixture generation
\* mutant: the round cap applied from 11 teams instead of 10
maxRoundsOffByOne(numTeams) ==
  IF numTeams > RoundCapTeams THEN RoundCap
  ELSE IF numTeams % 2 = 0 THEN numTeams - 1 ELSE numTeams

\* const maxRounds = numTeams >= 10 ? 7 : (numTeams % 2 === 0 ? numTeams - 1 : numTeams)
maxRounds(numTeams) ==
  IF numTeams >= RoundCapTeams THEN RoundCap
  ELSE IF numTeams % 2 = 0 THEN numTeams - 1 ELSE numTeams

\* const x = a.shift(); a.push(x)
ShiftPush(a) == Tail(a) \o <<Head(a)>>

\* a.unshift(a.pop())
PopUnshift(a) == <<a[Len(a)]>> \o SubSeq(a, 1, Len(a) - 1)

RECURSIVE ShiftPushTimes(_, _)
ShiftPushTimes(a, k) == IF k = 0 THEN a ELSE ShiftPushTimes(ShiftPush(a), k - 1)

\* the array `rotated` of one round
Rotated(names, r) ==
  IF r > 1
  THEN LET additionalRotations == (r - 1) % (Len(names) - 1)
       IN  PopUnshift(ShiftPushTimes(ShiftPush(names), additionalRotations))
  ELSE names

\* mutant: the pairing loop stops one pair early
PairCountShort(a) == (Len(a) - 1) \div 2

\* number of pairs of one round: Math.floor(rotated.length / 2)
PairCount(a) == Len(a) \div 2

\* mutant: the away index counted from length - 2
PairAtShifted(a, i) == [home |-> a[i + 1], away |-> a[Len(a) - i - 1]]

\* pair i (0-based): home = rotated[i], away = rotated[rotated.length - 1 - i]
PairAt(a, i) == [home |-> a[i + 1], away |-> a[Len(a) - i]]

\* roundMatches of one round
RoundPairs(a) == [i \in 1..PairCount(a) |-> PairAt(a, i - 1)]

\* the match document pushed for one pair
NewMatch(pair, number, r) ==
  [homeTeam |-> pair.home, awayTeam |-> pair.away, homeGoals |-> 0,
   awayGoals |-> 0, played |-> FALSE, matchNumber |-> number, roundNumber |-> r]

\* roundMatches.forEach(match => matches.push({... matchNumber: matchNumber++ ...}))
PushRound(acc, pairs, number, r) ==
  acc \o [i \in 1..Len(pairs) |-> NewMatch(pairs[i], number + i - 1, r)]

RECURSIVE ScheduleFrom(_, _, _, _)
ScheduleFrom(names, r, number, acc) ==
  IF r > maxRounds(Len(names)) THEN acc
  ELSE LET pairs == RoundPairs(Rotated(names, r))
       IN  ScheduleFrom(names, r + 1, number + Len(pairs),
                        PushRound(acc, pairs, number, r))

\* the whole loop: the array `matches` built by generateMatches
ScheduleOf(names) == ScheduleFrom(names, 1, 1, <<>>)

\* -------------------------------------------------- SchedSpec: loop walker
TeamNameOf(i) == "T" \o ToString(i)

NoLeague ==
  /\ participants = <<>> /\ teams = <<>> /\ matches = <<>>
  /\ status = "draft" /\ winner = [teamName |-> "", userId |-> 0]
  /\ isCelebrating = FALSE /\ celebrationEnds = 0 - 1 /\ previousWinners = <<>>
  /\ now = 0 /\ lastOp = [op |-> "none", code |-> 0, resubmit |-> "no"]

SchedIdle ==
  /\ teamNames = <<>> /\ round = 0 /\ rotated = <<>> /\ roundMatches = <<>>
  /\ pairIdx = 0 /\ matchNumber = 0 /\ newMatches = <<>> /\ pc = "idle"

\* no request in flight, nothing broadcast
NoCall == [pc |-> "idle", code |-> 0, matchId |-> 0, loaded |-> <<>>, doc |-> <<>>]

CallsIdle ==
  /\ calls = [c \in 1..MaxCalls |-> NoCall]
  /\ events = <<>>

\* const connectedClients = new Map(): no connection yet, no entry
\* (0 stands for a user without entry)
SocketUsers == 1..2
NoClients ==
  /\ sockets = <<>>
  /\ connectedClients = [u \in SocketUsers |-> 0]

SchedInit ==
  /\ NoLeague
  /\ \E n \in 2..MaxSchedTeams : teamNames = [i \in 1..n |-> TeamNameOf(i)]
  /\ round = 1 /\ rotated = <<>> /\ roundMatches = <<>> /\ pairIdx = 0
  /\ matchNumber = 1 /\ newMatches = <<>> /\ pc = "round"
  /\ CallsIdle /\ NoClients /\ keepsRejected = FALSE

\* for (let round = 1; round <= maxRounds; round++) { rotated = ...
RoundStart ==
  /\ pc = "round" /\ round <= maxRounds(Len(teamNames))
  /\ rotated' = Rotated(teamNames, round)
  /\ roundMatches' = <<>> /\ pairIdx' = 0 /\ pc' = "pair"
  /\ UNCHANGED <<teamNames, round, matchNumber, newMatches, leagueVars, now, lastOp,
                 callVars, wsVars, keepsRejected>>

\* for (let i = 0; i < Math.floor(rotated.length / 2); i++) roundMatches.push({home, away})
PairStep ==
  /\ pc = "pair" /\ pairIdx < PairCount(rotated)
  /\ roundMatches' = Append(roundMatches, PairAt(rotated, pairIdx))
  /\ pairIdx' = pairIdx + 1
  /\ UNCHANGED <<teamNames, round, rotated, matchNumber, newMatches, pc, leagueVars,
                 now, lastOp, callVars, wsVars, keepsRejected>>

\* roundMatches.forEach(...) and the loop increment
RoundFlush ==
  /\ pc = "pair" /\ pairIdx >= PairCount(rotated)
  /\ newMatches' = PushRound(newMatches, roundMatches, matchNumber, round)
  /\ matchNumber' = matchNumber + Len(roundMatches)
  /\ round' = round + 1 /\ pc' = "round"
  /\ UNCHANGED <<teamNames, rotated, roundMatches, pairIdx, leagueVars, now, lastOp,
                 callVars, wsVars, keepsRejected>>

LoopExit ==
  /\ pc = "round" /\ round > maxRounds(Len(teamNames))
  /\ pc' = "done"
  /\ UNCHANGED <<teamNames, round, rotated, roundMatches, pairIdx, matchNumber,
                 newMatches, leagueVars, now, lastOp, callVars, wsVars, keepsRejected>>

SchedNext == RoundStart \/ PairStep \/ RoundFlush \/ LoopExit

SchedSpec == SchedInit /\ [][SchedNext]_vars

\* the walked loop and the closed form agree
WalkIsScheduleOf == pc = "done" => newMatches = ScheduleOf(teamNames)

\* ------------------------------------------------------ the League document
NoWinner == [teamName |-> "", userId |-> 0]     \* userId 0: undefined
NoDate   == 0 - 1                              \* celebrationEnds not set

ZeroStats ==
  [played |-> 0, won |-> 0, drawn |-> 0, lost |-> 0, goalsFor |-> 0,
   goalsAgainst |-> 0, goalDifference |-> 0, points |-> 0]

\* one element of league.teams
Team(name, s) ==
  [name |-> name, played |-> s.played, won |-> s.won, drawn |-> s.drawn,
   lost |-> s.lost, goalsFor |-> s.goalsFor, goalsAgainst |-> s.goalsAgainst,
   goalDifference |-> s.goalDifference, points |-> s.points]

\* the document as loaded by League.findById / findOne
Doc ==
  [participants |-> participants, teams |-> teams, matches |-> matches,
   status |-> status, winner |-> winner, isCelebrating |-> isCelebrating,
   celebrationEnds |-> celebrationEnds, previousWinners |-> previousWinners]

\* index of the first true entry of a sequence of booleans, 0 when there is
\* none: the element Array.prototype.find returns
FirstTrue(hits) ==
  IF \E i \in 1..Len(hits) : hits[i]
  THEN CHOOSE i \in 1..Len(hits) : hits[i] /\ \A j \in 1..(i - 1) : ~hits[j]
  ELSE 0

\* league.teams.find(t => t.name === name)
TeamIndex(ts, name) == FirstTrue([i \in 1..Len(ts) |-> ts[i].name = name])

\* league.participants.find(p => p.teamName === name)
ParticipantIndex(ps, name) == FirstTrue([i \in 1..Len(ps) |-> ps[i].teamName = name])

\* participants.find(p => p.teamName === name)?.userId
OwnerOf(ps, name) ==
  LET i == ParticipantIndex(ps, name)
  IN  IF i = 0 THEN 0 ELSE ps[i].userId

\* comparator of both sorts: points descending, then goalDifference descending
Compare(a, b) ==
  IF b.points - a.points # 0 THEN b.points - a.points
  ELSE b.goalDifference - a.goalDifference

\* element j comes before element i in the sorted copy: the comparator puts
\* it first, or calls them equal and j was first (Array.prototype.sort is
\* stable)
SortsBefore(ts, j, i) ==
  \/ Compare(ts[j], ts[i]) < 0
  \/ Compare(ts[j], ts[i]) = 0 /\ j < i

\* position of element i in the sorted copy
SortedPosition(ts, i) ==
  1 + Cardinality({j \in 1..Len(ts) : j # i /\ SortsBefore(ts, j, i)})

\* [...teams].sort((a, b) => ...)
sortedTeams(ts) ==
  [k \in 1..Len(ts) |-> ts[CHOOSE i \in 1..Len(ts) : SortedPosition(ts, i) = k]]

\* ------------------------------------------------- leagueSchema.pre('save')
\* status recomputed from the dates once matches exist
DateStatus(ms, t) ==
  IF ms = <<>> THEN "draft"
  ELSE IF t < StartDate THEN "draft"
  ELSE IF t >= StartDate /\ t <= EndDate THEN "active"
  ELSE "completed"

\* mutant: the hook looks for a winner even when one is set
PreSaveRecrown(d, t) ==
  LET d1 == [d EXCEPT !.status = DateStatus(d.matches, t)]
      top == sortedTeams(d1.teams)
      d2 == IF /\ d1.status = "completed"
               /\ Len(d1.teams) > 0 /\ top[1].points > 0
            THEN LET w == [teamName |-> top[1].name,
                           userId |-> OwnerOf(d1.participants, top[1].name)]
                 IN  [d1 EXCEPT !.winner = w, !.isCelebrating = TRUE,
                                !.celebrationEnds = t + CelebrationSpan,
                                !.previousWinners = Append(@, w)]
            ELSE d1
  IN  IF d2.isCelebrating /\ d2.celebrationEnds # NoDate /\ t > d2.celebrationEnds
      THEN [d2 EXCEPT !.isCelebrating = FALSE]
      ELSE d2

PreSave(d, t) ==
  LET d1 == [d EXCEPT !.status = DateStatus(d.matches, t)]
      top == sortedTeams(d1.teams)
      d2 == IF /\ d1.status = "completed" /\ d1.winner.teamName = ""
               /\ Len(d1.teams) > 0 /\ top[1].points > 0
            THEN LET w == [teamName |-> top[1].name,
                           userId |-> OwnerOf(d1.participants, top[1].name)]
                 IN  [d1 EXCEPT !.winner = w, !.isCelebrating = TRUE,
                                !.celebrationEnds = t + CelebrationSpan,
                                !.previousWinners = Append(@, w)]
            ELSE d1
  IN  IF d2.isCelebrating /\ d2.celebrationEnds # NoDate /\ t > d2.celebrationEnds
      THEN [d2 EXCEPT !.isCelebrating = FALSE]
      ELSE d2

\* await league.save(): the hook runs, then the document is written
Save(d) ==
  LET s == PreSave(d, now)
  IN  /\ participants' = s.participants /\ teams' = s.teams /\ matches' = s.matches
      /\ status' = s.status /\ winner' = s.winner
      /\ isCelebrating' = s.isCelebrating /\ celebrationEnds' = s.celebrationEnds
      /\ previousWinners' = s.previousWinners

Respond(op, code) ==
  lastOp' = [op |-> op, code |-> code, resubmit |-> "no"]

\* an early return with an error status: nothing is saved, and lastOp keeps
\* the last request that was served, unless the run keeps the rejected
\* requests as well
Reject(op, code) ==
  /\ UNCHANGED leagueVars
  /\ lastOp' = IF keepsRejected THEN [op |-> op, code |-> code, resubmit |-> "no"]
               ELSE lastOp

\* ------------------------------------------------------ recalculateStandings
\* mutant: the counters are not reset before the matches are replayed
ResetStatsKeep(ts) == ts

\* league.teams.forEach(team => { team.played = 0; ... })
ResetStats(ts) == [i \in 1..Len(ts) |-> Team(ts[i].name, ZeroStats)]

\* the body of league.matches.forEach for one match
\* mutant: a match is counted for its home team only
ApplyMatchHomeOnly(ts, m) ==
  LET h == TeamIndex(ts, m.homeTeam)
      homeWin == m.homeGoals > m.awayGoals
      awayWin == m.awayGoals > m.homeGoals
  IN  IF m.played /\ h # 0 /\ TeamIndex(ts, m.awayTeam) # 0
      THEN [ts EXCEPT ![h] =
              [@ EXCEPT !.played = @ + 1,
                        !.goalsFor = @ + m.homeGoals,
                        !.goalsAgainst = @ + m.awayGoals,
                        !.goalDifference = (ts[h].goalsFor + m.homeGoals)
                                             - (ts[h].goalsAgainst + m.awayGoals),
                        !.won = IF homeWin THEN @ + 1 ELSE @,
                        !.lost = IF awayWin THEN @ + 1 ELSE @,
                        !.drawn = IF ~homeWin /\ ~awayWin THEN @ + 1 ELSE @,
                        !.points = IF homeWin THEN @ + 3
                                   ELSE IF awayWin THEN @ ELSE @ + 1]]
      ELSE ts

ApplyMatch(ts, m) ==
  LET h == TeamIndex(ts, m.homeTeam)
      a == TeamIndex(ts, m.awayTeam)
      homeWin == m.homeGoals > m.awayGoals
      awayWin == m.awayGoals > m.homeGoals
      draw    == ~homeWin /\ ~awayWin
      Side(t, gf, ga, win, lose) ==
        [t EXCEPT !.played = @ + 1,
                  !.goalsFor = @ + gf,
                  !.goalsAgainst = @ + ga,
                  !.goalDifference = (t.goalsFor + gf) - (t.goalsAgainst + ga),
                  !.won = IF win THEN @ + 1 ELSE @,
                  !.lost = IF lose THEN @ + 1 ELSE @,
                  !.drawn = IF draw THEN @ + 1 ELSE @,
                  !.points = IF win THEN @ + 3 ELSE IF draw THEN @ + 1 ELSE @]
  IN  IF m.played /\ h # 0 /\ a # 0
      THEN [ts EXCEPT ![h] = Side(ts[h], m.homeGoals, m.awayGoals, homeWin, awayWin),
                      ![a] = Side(ts[a], m.awayGoals, m.homeGoals, awayWin, homeWin)]
      ELSE ts

\* the forEach over the matches from position i on; an empty table stays empty
RECURSIVE ReplayFrom(_, _, _)
ReplayFrom(ts, ms, i) ==
  IF i > Len(ms) \/ Len(ts) = 0 THEN ts
  ELSE ReplayFrom(ApplyMatch(ts, ms[i]), ms, i + 1)

\* mutant: the replay adds to the counters the table already holds
RecalcTeamsIncremental(ts, ms) == ReplayFrom(ts, ms, 1)

\* reset, then replay every played match in list order
RecalcTeams(ts, ms) == ReplayFrom(ResetStats(ts), ms, 1)

PlayedCount(ms) == Cardinality({i \in 1..Len(ms) : ms[i].played})

\* mutant: the winner is only looked for once every match is played
recalculateStandingsAllPlayed(d, t) ==
  LET d1 == [d EXCEPT !.teams = RecalcTeams(d.teams, d.matches)]
      totalMatches == Len(d1.matches)
      playedMatches == PlayedCount(d1.matches)
      top == sortedTeams(d1.teams)
      remainingMatches == totalMatches - playedMatches
  IN  IF /\ playedMatches = totalMatches
         /\ d1.status = "active"
         /\ Len(top) >= 2
         /\ top[1].points > top[2].points + (remainingMatches * 3)
         /\ d1.winner.teamName = ""
      THEN [d1 EXCEPT !.winner = [teamName |-> top[1].name,
                                  userId |-> OwnerOf(d1.participants, top[1].name)],
                      !.isCelebrating = TRUE,
                      !.celebrationEnds = t + CelebrationSpan,
                      !.status = "completed"]
      ELSE d1

\* mutant: a leader level on points with the second is crowned, the order of
\* the sort (goal difference) deciding
recalculateStandingsLevel(d, t) ==
  LET d1 == [d EXCEPT !.teams = RecalcTeams(d.teams, d.matches)]
      totalMatches == Len(d1.matches)
      playedMatches == PlayedCount(d1.matches)
      top == sortedTeams(d1.teams)
      remainingMatches == totalMatches - playedMatches
  IN  IF /\ playedMatches * 100 >= ClinchPercent * totalMatches
         /\ d1.status = "active"
         /\ Len(top) >= 2
         /\ top[1].points >= top[2].points + (remainingMatches * 3)
         /\ d1.winner.teamName = ""
      THEN [d1 EXCEPT !.winner = [teamName |-> top[1].name,
                                  userId |-> OwnerOf(d1.participants, top[1].name)],
                      !.isCelebrating = TRUE,
                      !.celebrationEnds = t + CelebrationSpan,
                      !.status = "completed"]
      ELSE d1

\* mutant: the winner is looked for whatever the share of played matches
recalculateStandingsAnyShare(d, t) ==
  LET d1 == [d EXCEPT !.teams = RecalcTeams(d.teams, d.matches)]
      totalMatches == Len(d1.matches)
      playedMatches == PlayedCount(d1.matches)
      top == sortedTeams(d1.teams)
      remainingMatches == totalMatches - playedMatches
  IN  IF /\ d1.status = "active"
         /\ Len(top) >= 2
         /\ top[1].points > top[2].points + (remainingMatches * 3)
         /\ d1.winner.teamName = ""
      THEN [d1 EXCEPT !.winner = [teamName |-> top[1].name,
                                  userId |-> OwnerOf(d1.participants, top[1].name)],
                      !.isCelebrating = TRUE,
                      !.celebrationEnds = t + CelebrationSpan,
                      !.status = "completed"]
      ELSE d1

\* the whole helper: standings, then the 95% completion check
\* ((playedMatches / totalMatches) * 100 >= 95, here in integers)
recalculateStandings(d, t) ==
  LET d1 == [d EXCEPT !.teams = RecalcTeams(d.teams, d.matches)]
      totalMatches == Len(d1.matches)
      playedMatches == PlayedCount(d1.matches)
      top == sortedTeams(d1.teams)
      remainingMatches == totalMatches - playedMatches
  IN  IF /\ playedMatches * 100 >= ClinchPercent * totalMatches
         /\ d1.status = "active"
         /\ Len(top) >= 2
         /\ top[1].points > top[2].points + (remainingMatches * 3)
         /\ d1.winner.teamName = ""
      THEN [d1 EXCEPT !.winner = [teamName |-> top[1].name,
                                  userId |-> OwnerOf(d1.participants, top[1].name)],
                      !.isCelebrating = TRUE,
                      !.celebrationEnds = t + CelebrationSpan,
                      !.status = "completed"]
      ELSE d1

\* ------------------------------------------------------------ request inputs
Undefined == 0 - 2                        \* a body field that is missing
Scores == (0..MaxGoals) \X (0..MaxGoals)
\* malformed request bodies of updateMatchResult
BadScores == {<<Undefined, 0>>, <<0, Undefined>>, <<0 - 1, 0>>, <<0, 0 - 1>>}
\* requests of updateMatchResult: every score for each of the first
\* MaxScored matches, and for match 1 and for an unknown match id the
\* malformed bodies as well
ResultRequests(ms) ==
  ({id \in 1..Len(ms) : id <= MaxScored} \X Scores)
    \cup ({1, Len(ms) + 1} \X (BadScores \cup {<<0, 0>>}))
\* the team name a user asks for when joining: users with an odd id ask for
\* "A", the others for "B"; users sign up in the order of their ids
RequestedName(u) == IF u % 2 = 0 THEN "B" ELSE "A"
\* rows an admin may send to updateStandings
StandingsInputs ==
  { [ZeroStats EXCEPT !.played = 1, !.points = 3, !.goalDifference = 2] }

\* ------------------------------------------------------------------ handlers
\* the league createLeague has saved
NewLeague ==
  /\ participants = <<>> /\ teams = <<>> /\ matches = <<>>
  /\ status = "draft" /\ winner = NoWinner
  /\ isCelebrating = FALSE /\ celebrationEnds = NoDate /\ previousWinners = <<>>
  /\ now = 0 /\ lastOp = [op |-> "createLeague", code |-> 200, resubmit |-> "no"]

Init == NewLeague /\ SchedIdle /\ CallsIdle /\ NoClients /\ keepsRejected = FALSE

NameTaken(ps, name) == \E i \in 1..Len(ps) : ps[i].teamName = name

RECURSIVE UniqueFrom(_, _, _, _)
UniqueFrom(ps, base, candidate, counter) ==
  IF NameTaken(ps, candidate)
  THEN UniqueFrom(ps, base, base \o ToString(counter), counter + 1)
  ELSE candidate

\* finalTeamName: the requested name, suffixed with a counter while it is taken
finalTeamName(ps, name) == UniqueFrom(ps, name, name, 1)

joinLeague(u) ==
  /\ UNCHANGED <<now, schedVars, callVars, wsVars, keepsRejected>>
  /\ IF status # "draft" /\ status \in {"active", "completed"}
     THEN Reject("joinLeague", 400)
     ELSE IF Len(participants) >= MaxTeams
     THEN Reject("joinLeague", 400)
     ELSE IF \E i \in 1..Len(participants) : participants[i].userId = u
     THEN Reject("joinLeague", 400)
     ELSE /\ Save([Doc EXCEPT !.participants =
                     Append(@, [userId |-> u,
                                teamName |-> finalTeamName(participants, RequestedName(u)),
                                status |-> "approved"])])
          /\ Respond("joinLeague", 200)

\* mutant: generating the fixtures starts an empty history of winners
generateMatchesNewHistory ==
  /\ UNCHANGED <<now, schedVars, callVars, wsVars, keepsRejected>>
  /\ IF status # "draft"
     THEN Reject("generateMatches", 400)
     ELSE LET approved == SelectSeq(participants, LAMBDA p : p.status = "approved")
              names == [i \in 1..Len(approved) |-> approved[i].teamName]
          IN  IF Len(approved) < 2
              THEN Reject("generateMatches", 400)
              ELSE /\ Save([Doc EXCEPT
                              !.teams = [i \in 1..Len(names) |-> Team(names[i], ZeroStats)],
                              !.matches = ScheduleOf(names),
                              !.status = "active",
                              !.previousWinners = <<>>])
                   /\ Respond("generateMatches", 200)

generateMatches ==
  /\ UNCHANGED <<now, schedVars, callVars, wsVars, keepsRejected>>
  /\ IF status # "draft"
     THEN Reject("generateMatches", 400)
     ELSE LET approved == SelectSeq(participants, LAMBDA p : p.status = "approved")
              names == [i \in 1..Len(approved) |-> approved[i].teamName]
          IN  IF Len(approved) < 2
              THEN Reject("generateMatches", 400)
              ELSE /\ Save([Doc EXCEPT
                              !.teams = [i \in 1..Len(names) |-> Team(names[i], ZeroStats)],
                              !.matches = ScheduleOf(names),
                              !.status = "active"])
                   /\ Respond("generateMatches", 200)

\* mutant: a negative goal count is not turned down
updateMatchResultUnchecked(matchId, homeGoals, awayGoals) ==
  /\ UNCHANGED <<now, schedVars, callVars, wsVars, keepsRejected>>
  /\ IF homeGoals = Undefined \/ awayGoals = Undefined
     THEN Reject("updateMatchResult", 400)
     ELSE IF matchId \notin 1..Len(matches)
     THEN Reject("updateMatchResult", 404)
     ELSE /\ LET d == [Doc EXCEPT !.matches[matchId].homeGoals = homeGoals,
                                  !.matches[matchId].awayGoals = awayGoals,
                                  !.matches[matchId].played = TRUE]
             IN  Save(recalculateStandings(d, now))
          /\ Respond("updateMatchResult", 200)

updateMatchResult(matchId, homeGoals, awayGoals) ==
  /\ UNCHANGED <<now, schedVars, callVars, wsVars, keepsRejected>>
  /\ IF homeGoals = Undefined \/ awayGoals = Undefined
     THEN Reject("updateMatchResult", 400)
     ELSE IF homeGoals < 0 \/ awayGoals < 0
     THEN Reject("updateMatchResult", 400)
     ELSE IF matchId \notin 1..Len(matches)
     THEN Reject("updateMatchResult", 404)
     ELSE /\ LET d == [Doc EXCEPT !.matches[matchId].homeGoals = homeGoals,
                                  !.matches[matchId].awayGoals = awayGoals,
                                  !.matches[matchId].played = TRUE]
             IN  Save(recalculateStandings(d, now))
          /\ lastOp' = [op |-> "updateMatchResult", code |-> 200,
                        resubmit |-> IF ~matches[matchId].played THEN "no"
                                     ELSE IF <<matches[matchId].homeGoals,
                                               matches[matchId].awayGoals>>
                                             = <<homeGoals, awayGoals>>
                                          THEN "same" ELSE "changed"]

updateStandings(newTeams) ==
  /\ UNCHANGED <<now, schedVars, callVars, wsVars, keepsRejected>>
  /\ Save([Doc EXCEPT !.teams = newTeams])
  /\ Respond("updateStandings", 200)

\* mutant: the crowning does not record the winner in the history
setLeagueWinnerNoHistory(teamName) ==
  /\ UNCHANGED <<now, schedVars, callVars, wsVars, keepsRejected>>
  /\ LET p == ParticipantIndex(participants, teamName)
     IN  IF p = 0
         THEN Reject("setLeagueWinner", 404)
         ELSE /\ Len(previousWinners) < MaxHistory
              /\ LET w == [teamName |-> teamName, userId |-> participants[p].userId]
                 IN  Save([Doc EXCEPT !.winner = w,
                                      !.isCelebrating = TRUE,
                                      !.celebrationEnds = now + CelebrationSpan,
                                      !.status = "completed"])
              /\ Respond("setLeagueWinner", 200)

setLeagueWinner(teamName) ==
  /\ UNCHANGED <<now, schedVars, callVars, wsVars, keepsRejected>>
  /\ LET p == ParticipantIndex(participants, teamName)
     IN  IF p = 0
         THEN Reject("setLeagueWinner", 404)
         ELSE /\ Len(previousWinners) < MaxHistory
              /\ LET w == [teamName |-> teamName, userId |-> participants[p].userId]
                 IN  Save([Doc EXCEPT !.winner = w,
                                      !.isCelebrating = TRUE,
                                      !.celebrationEnds = now + CelebrationSpan,
                                      !.status = "completed",
                                      !.previousWinners = Append(@, w)])
              /\ Respond("setLeagueWinner", 200)

\* a day passes
Tick ==
  /\ now < MaxTime
  /\ now' = now + 1
  /\ Respond("tick", 0)
  /\ UNCHANGED <<leagueVars, schedVars, callVars, wsVars, keepsRejected>>

\* the tables an admin sends: the current rows, or every row overwritten
StandingsRequests ==
  {teams} \cup { [i \in 1..Len(teams) |-> Team(teams[i].name, s)] : s \in StandingsInputs }

Next ==
  \/ \E u \in 1..(Len(participants) + 1) : joinLeague(u)
  \/ generateMatches
  \/ \E r \in ResultRequests(matches) : updateMatchResult(r[1], r[2][1], r[2][2])
  \/ \E t \in StandingsRequests : updateStandings(t)
  \/ \E n \in {participants[i].teamName : i \in 1..Len(participants)} \cup {"Nobody"} :
       setLeagueWinner(n)
  \/ Tick

Spec == Init /\ [][Next]_vars

\* ------------------------------------- StandingsSpec: results on one fixture
\* participants after the first n users have joined
RECURSIVE JoinedUpTo(_)
JoinedUpTo(n) ==
  IF n = 0 THEN <<>>
  ELSE LET ps == JoinedUpTo(n - 1)
       IN  Append(ps, [userId |-> n,
                       teamName |-> finalTeamName(ps, RequestedName(n)),
                       status |-> "approved"])

\* a league of 2..MaxTeams teams whose fixtures were generated on its start
\* date, then nothing but result submissions and standings updates
StandingsInit ==
  /\ \E n \in 2..MaxTeams :
       LET ps == JoinedUpTo(n)
           d == PreSave([participants |-> ps,
                         teams |-> [i \in 1..n |-> Team(ps[i].teamName, ZeroStats)],
                         matches |-> ScheduleOf([i \in 1..n |-> ps[i].teamName]),
                         status |-> "active", winner |-> NoWinner,
                         isCelebrating |-> FALSE, celebrationEnds |-> NoDate,
                         previousWinners |-> <<>>], StartDate)
       IN  /\ participants = d.participants /\ teams = d.teams /\ matches = d.matches
           /\ status = d.status /\ winner = d.winner
           /\ isCelebrating = d.isCelebrating /\ celebrationEnds = d.celebrationEnds
           /\ previousWinners = d.previousWinners
  /\ now = StartDate
  /\ lastOp = [op |-> "generateMatches", code |-> 200, resubmit |-> "no"]
  /\ SchedIdle /\ CallsIdle /\ NoClients /\ keepsRejected = FALSE

StandingsNext ==
  \/ \E r \in ResultRequests(matches) : updateMatchResult(r[1], r[2][1], r[2][2])
  \/ \E t \in StandingsRequests : updateStandings(t)

StandingsSpec == StandingsInit /\ [][StandingsNext]_vars

\* ------------------------------ ClinchSpec: the last results of a big league
\* results already submitted for the early matches, by scenario
ClinchScenarios == {"firstTeamWins", "homeWins", "homeWinsWide", "awayWins", "draws"}

PrePlayedScore(m, first, scenario) ==
  IF scenario = "firstTeamWins"
  THEN IF m.homeTeam = first THEN <<1, 0>>
       ELSE IF m.awayTeam = first THEN <<0, 1>> ELSE <<0, 0>>
  ELSE IF scenario = "homeWins" THEN <<1, 0>>
  ELSE IF scenario = "homeWinsWide" THEN <<1 + ((m.roundNumber + 1) % 2), 0>>
  ELSE IF scenario = "awayWins" THEN <<0, 1>>
  ELSE <<0, 0>>

PrePlayed(ms, first, scenario) ==
  [k \in 1..Len(ms) |->
     IF k <= Len(ms) - ClinchOpen
     THEN LET s == PrePlayedScore(ms[k], first, scenario)
          IN  [ms[k] EXCEPT !.homeGoals = s[1], !.awayGoals = s[2], !.played = TRUE]
     ELSE ms[k]]

\* a league of ClinchTeams teams on its start date; all but the last
\* ClinchOpen matches already have a result
ClinchInit ==
  /\ \E scenario \in ClinchScenarios :
       LET ps == JoinedUpTo(ClinchTeams)
           names == [i \in 1..ClinchTeams |-> ps[i].teamName]
           d0 == [participants |-> ps,
                  teams |-> [i \in 1..ClinchTeams |-> Team(names[i], ZeroStats)],
                  matches |-> PrePlayed(ScheduleOf(names), names[1], scenario),
                  status |-> "active", winner |-> NoWinner,
                  isCelebrating |-> FALSE, celebrationEnds |-> NoDate,
                  previousWinners |-> <<>>]
           d == PreSave(recalculateStandings(d0, StartDate), StartDate)
       IN  /\ participants = d.participants /\ teams = d.teams /\ matches = d.matches
           /\ status = d.status /\ winner = d.winner
           /\ isCelebrating = d.isCelebrating /\ celebrationEnds = d.celebrationEnds
           /\ previousWinners = d.previousWinners
  /\ now = StartDate
  /\ lastOp = [op |-> "updateMatchResult", code |-> 200, resubmit |-> "no"]
  /\ SchedIdle /\ CallsIdle /\ NoClients /\ keepsRejected = FALSE

\* a home win, a draw and an away win
Outcomes == {<<1, 0>>, <<0, 0>>, <<0, 1>>}

\* results for the matches that were open at the start
ClinchRequests(ms) == ((Len(ms) - ClinchOpen + 1)..Len(ms)) \X Outcomes

ClinchNext ==
  \E r \in ClinchRequests(matches) : updateMatchResult(r[1], r[2][1], r[2][2])

ClinchSpec == ClinchInit /\ [][ClinchNext]_vars

\* ------------------------------ CrownSpec: results, crownings and the clock
\* a freshly scheduled league, then result submissions, manual crownings and
\* the passing of time
\* the admin crowns one of the first two teams, or names a team nobody has
CrownCandidates == {participants[1].teamName, participants[2].teamName, "Nobody"}

CrownRequests(ms) == {id \in 1..Len(ms) : id <= MaxScored} \X Outcomes

CrownNext ==
  \/ \E r \in CrownRequests(matches) : updateMatchResult(r[1], r[2][1], r[2][2])
  \/ \E n \in CrownCandidates : setLeagueWinner(n)
  \/ Tick

CrownSpec == StandingsInit /\ [][CrownNext]_vars

\* ----------------------------- ReadSpec: reads between writes and ticks
\* getPreviousWinners: League.findById and res.json, nothing is saved
getPreviousWinners ==
  /\ Respond("getPreviousWinners", 200)
  /\ UNCHANGED <<leagueVars, now, schedVars, callVars, wsVars, keepsRejected>>

\* the leagues getCelebratingWinners finds: isCelebrating, celebrationEnds
\* after new Date(), and a winner with a name
getCelebratingWinners(d, t) ==
  IF d.isCelebrating /\ d.celebrationEnds > t /\ d.winner.teamName # ""
  THEN {d} ELSE {}

\* result submissions, manual crownings and clock ticks, and reads of the
\* history in between
ReadNext == CrownNext \/ getPreviousWinners

ReadSpec == StandingsInit /\ [][ReadNext]_vars

\* --------------------------- RejectSpec: requests served and turned down
\* a new league; users join, fixtures are generated, results are submitted and
\* winners are set, with well-formed and with malformed requests, and lastOp
\* keeps the requests that were turned down as well
RejectInit == NewLeague /\ SchedIdle /\ CallsIdle /\ NoClients /\ keepsRejected = TRUE

\* malformed bodies and well-formed results for an unknown match id
BadRequests(ms) == ({1, Len(ms) + 1} \X BadScores) \cup {<<Len(ms) + 1, <<0, 0>>>>}

\* the outcomes of the first match, and the requests that are turned down
RejectRequests(ms) == ({id \in 1..Len(ms) : id = 1} \X Outcomes) \cup BadRequests(ms)

RejectNext ==
  \/ \E u \in 1..(Len(participants) + 1) : joinLeague(u)
  \/ generateMatches
  \/ \E r \in RejectRequests(matches) : updateMatchResult(r[1], r[2][1], r[2][2])
  \/ \E n \in {participants[i].teamName : i \in 1..Len(participants)} \cup {"Nobody"} :
       setLeagueWinner(n)

RejectSpec == RejectInit /\ [][RejectNext]_vars

\* ------------------------------------------ the WebSocket registry (server.js)
\* users whose registered connection has readyState OPEN
OpenClients ==
  {u \in SocketUsers : connectedClients[u] # 0
                        /\ sockets[connectedClients[u]].readyState = "OPEN"}

\* connectedClients.delete(userId) for every user of a set
DeleteClients(us) == [u \in SocketUsers |-> IF u \in us THEN 0 ELSE connectedClients[u]]

\* requests to /ws: no token, or the token of a user
NoToken == 0
Tokens == SocketUsers \cup {NoToken}

\* wss.on('connection'): a request without token is closed at once and leaves
\* no trace; with a token the connection becomes the entry of its user, the
\* welcome message is sent and the close and error handlers are attached.
\* When the welcome send throws, the catch block closes the connection and
\* no handler is attached.
connection(token, welcomeThrows) ==
  /\ Len(sockets) < MaxSockets
  /\ IF token = NoToken
     THEN UNCHANGED wsVars
     ELSE /\ sockets' = Append(sockets,
                               [userId |-> token,
                                readyState |-> IF welcomeThrows THEN "CLOSING" ELSE "OPEN",
                                handlers |-> ~welcomeThrows])
          /\ connectedClients' = [connectedClients EXCEPT ![token] = Len(sockets) + 1]
  /\ UNCHANGED <<leagueVars, now, lastOp, keepsRejected, schedVars, callVars>>

\* the connection is gone: ws.on('close') deletes the entry of its user
socketClose(k) ==
  /\ k \in 1..Len(sockets) /\ sockets[k].readyState # "CLOSED"
  /\ sockets' = [sockets EXCEPT ![k].readyState = "CLOSED"]
  /\ connectedClients' = IF sockets[k].handlers
                         THEN DeleteClients({sockets[k].userId}) ELSE connectedClients
  /\ UNCHANGED <<leagueVars, now, lastOp, keepsRejected, schedVars, callVars>>

\* the connection fails and starts closing: ws.on('error') deletes the entry
\* of its user
socketError(k) ==
  /\ k \in 1..Len(sockets) /\ sockets[k].readyState = "OPEN"
  /\ sockets' = [sockets EXCEPT ![k].readyState = "CLOSING"]
  /\ connectedClients' = IF sockets[k].handlers
                         THEN DeleteClients({sockets[k].userId}) ELSE connectedClients
  /\ UNCHANGED <<leagueVars, now, lastOp, keepsRejected, schedVars, callVars>>

\* users with an entry in the registry
Registered == {u \in SocketUsers : connectedClients[u] # 0}

\* the message as the log of broadcasts records it: to how many entries it was
\* sent (sentCount), how many entries it did not reach (not open, or ws.send
\* threw), and for how many of these ws.send threw
Broadcast(type, c, thrown) ==
  Append(events, [type |-> type, call |-> c,
                  sent |-> Cardinality(OpenClients \ thrown),
                  failed |-> Cardinality(Registered \ (OpenClients \ thrown)),
                  thrown |-> Cardinality(thrown)])

\* broadcastToAll(message): ws.send to every entry that is open; an entry whose
\* send throws is deleted, and the loop goes on
broadcastToAll(type, c, thrown) ==
  /\ events' = Broadcast(type, c, thrown)
  /\ connectedClients' = DeleteClients(thrown)
  /\ UNCHANGED sockets

\* ------------------------- CallSpec: updateMatchResult calls step by step
\* A call is served in two steps with other calls in between: the read of the
\* league (findOne) followed by the work on the copy in memory, and the
\* write of league.save().  Node runs the code between the two awaits
\* without interruption.

\* the copy in memory after match.homeGoals = ...; match.played = true and
\* recalculateStandings(league)
ComputedDoc(d, matchId, homeGoals, awayGoals, t) ==
  recalculateStandings([d EXCEPT !.matches[matchId].homeGoals = homeGoals,
                                 !.matches[matchId].awayGoals = awayGoals,
                                 !.matches[matchId].played = TRUE], t)

StatFields == {"played", "won", "drawn", "lost", "goalsFor", "goalsAgainst",
               "goalDifference", "points"}
MatchFields == {"homeGoals", "awayGoals", "played"}
TopFields == {"status", "winner", "isCelebrating", "celebrationEnds"}

\* the values a counter of team i holds during the recompute of call c: after
\* the reset and after each match of the list
StatDuring(c, i, f, k) ==
  ReplayFrom(ResetStats(c.loaded.teams), SubSeq(c.doc.matches, 1, k), 1)[i][f]

\* save() sends the paths the call has modified.  A path that was assigned
\* and ended on the value it was loaded with is sent or not, depending on the
\* version of Mongoose: marksKept says which.
StatModified(c, i, f, marksKept) ==
  \E k \in (IF marksKept THEN 0..Len(c.doc.matches) ELSE {Len(c.doc.matches)}) :
    StatDuring(c, i, f, k) # c.loaded.teams[i][f]

TopModified(c, final, f, marksKept) ==
  \/ final[f] # c.loaded[f]
  \/ marksKept /\ (c.doc[f] # c.loaded[f] \/ final[f] # c.doc[f])

\* the stored league after the write of call c; no path of participants is
\* modified, and previousWinners receives the entries the hook pushed
WrittenDoc(stored, c, t, marksKept) ==
  LET final == PreSave(c.doc, t)
      id == c.matchId
  IN  [participants |-> stored.participants,
       teams |-> [i \in 1..Len(stored.teams) |->
                    [f \in DOMAIN stored.teams[i] |->
                       IF f \in StatFields /\ StatModified(c, i, f, marksKept)
                       THEN final.teams[i][f] ELSE stored.teams[i][f]]],
       matches |-> [stored.matches EXCEPT ![id] =
                      [f \in DOMAIN @ |->
                         IF f \in MatchFields /\ c.doc.matches[id][f] # c.loaded.matches[id][f]
                         THEN c.doc.matches[id][f] ELSE @[f]]],
       status |-> IF TopModified(c, final, "status", marksKept)
                  THEN final.status ELSE stored.status,
       winner |-> IF TopModified(c, final, "winner", marksKept)
                  THEN final.winner ELSE stored.winner,
       isCelebrating |-> IF TopModified(c, final, "isCelebrating", marksKept)
                         THEN final.isCelebrating ELSE stored.isCelebrating,
       celebrationEnds |-> IF TopModified(c, final, "celebrationEnds", marksKept)
                           THEN final.celebrationEnds ELSE stored.celebrationEnds,
       previousWinners |-> stored.previousWinners
                             \o SubSeq(final.previousWinners,
                                       Len(c.loaded.previousWinners) + 1,
                                       Len(final.previousWinners))]


\* validation, League.findOne, the update of the match and recalculateStandings
\* with its LEAGUE_WINNER_CROWNED broadcast
updateMatchResultLoad(c, matchId, homeGoals, awayGoals) ==
  /\ calls[c].pc = "idle"
  /\ UNCHANGED <<leagueVars, now, lastOp, keepsRejected, schedVars>>
  /\ IF homeGoals = Undefined \/ awayGoals = Undefined \/ homeGoals < 0 \/ awayGoals < 0
     THEN /\ calls' = [calls EXCEPT ![c] = [@ EXCEPT !.pc = "done", !.code = 400]]
          /\ UNCHANGED <<events, wsVars>>
     ELSE IF matchId \notin 1..Len(matches)
     THEN /\ calls' = [calls EXCEPT ![c] = [@ EXCEPT !.pc = "done", !.code = 404]]
          /\ UNCHANGED <<events, wsVars>>
     ELSE LET d == ComputedDoc(Doc, matchId, homeGoals, awayGoals, now)
          IN  /\ calls' = [calls EXCEPT ![c] = [pc |-> "saving", code |-> 0,
                                                matchId |-> matchId,
                                                loaded |-> Doc, doc |-> d]]
              /\ IF d.winner # winner
                 THEN \E thrown \in SUBSET OpenClients :
                        broadcastToAll("LEAGUE_WINNER_CROWNED", c, thrown)
                 ELSE UNCHANGED <<events, wsVars>>

\* mutant: an exception of ws.send leaves broadcastToAll and reaches the catch
\* block of the handler, which answers 500
updateMatchResultSaveUncaught(c) ==
  /\ calls[c].pc = "saving"
  /\ \E marksKept \in BOOLEAN :
       \E w \in {WrittenDoc(Doc, calls[c], now, marksKept)} :
           /\ participants' = w.participants /\ teams' = w.teams
           /\ matches' = w.matches /\ status' = w.status /\ winner' = w.winner
           /\ isCelebrating' = w.isCelebrating
           /\ celebrationEnds' = w.celebrationEnds
           /\ previousWinners' = w.previousWinners
  /\ \E thrown \in SUBSET OpenClients :
       /\ broadcastToAll("MATCH_UPDATED", c, thrown)
       /\ calls' = [calls EXCEPT ![c] = [@ EXCEPT !.pc = "done",
                                           !.code = IF thrown = {} THEN 200 ELSE 500]]
       /\ Respond("updateMatchResult", IF thrown = {} THEN 200 ELSE 500)
  /\ UNCHANGED <<now, keepsRejected, schedVars>>

\* await league.save() resolves, then the MATCH_UPDATED broadcast and res.json
updateMatchResultSave(c) ==
  /\ calls[c].pc = "saving"
  /\ \E marksKept \in BOOLEAN :
       \E w \in {WrittenDoc(Doc, calls[c], now, marksKept)} :
           /\ participants' = w.participants /\ teams' = w.teams
           /\ matches' = w.matches /\ status' = w.status /\ winner' = w.winner
           /\ isCelebrating' = w.isCelebrating
           /\ celebrationEnds' = w.celebrationEnds
           /\ previousWinners' = w.previousWinners
  /\ \E thrown \in SUBSET OpenClients : broadcastToAll("MATCH_UPDATED", c, thrown)
  /\ calls' = [calls EXCEPT ![c] = [@ EXCEPT !.pc = "done", !.code = 200]]
  /\ Respond("updateMatchResult", 200)
  /\ UNCHANGED <<now, keepsRejected, schedVars>>

\* await league.save() rejects: the catch block answers 500
updateMatchResultSaveFails(c) ==
  /\ calls[c].pc = "saving"
  /\ calls' = [calls EXCEPT ![c] = [@ EXCEPT !.pc = "done", !.code = 500]]
  /\ Respond("updateMatchResult", 500)
  /\ UNCHANGED <<leagueVars, now, keepsRejected, schedVars, events, wsVars>>

\* well-formed results and one body without homeGoals
CallRequests(ms) == CrownRequests(ms) \cup {<<1, <<Undefined, 0>>>>}

CallNext ==
  \E c \in 1..MaxCalls :
    \/ \E r \in CallRequests(matches) : updateMatchResultLoad(c, r[1], r[2][1], r[2][2])
    \/ updateMatchResultSave(c)
    \/ updateMatchResultSaveFails(c)

CallSpec == StandingsInit /\ [][CallNext]_vars

\* ------------------- NotifySpec: one result submission and its subscribers
\* connections come and go while one updateMatchResult call is served
\* the call submits a result for the first match
NotifyRequests == {1} \X Outcomes

NotifyNext ==
  \/ \E token \in Tokens, welcomeThrows \in BOOLEAN : connection(token, welcomeThrows)
  \/ \E k \in 1..MaxSockets : socketClose(k)
  \/ \E k \in 1..MaxSockets : socketError(k)
  \/ \E r \in NotifyRequests : updateMatchResultLoad(1, r[1], r[2][1], r[2][2])
  \/ updateMatchResultSave(1)

\* the league of two teams and one match
NotifyInit == StandingsInit /\ Len(participants) = 2

NotifySpec == NotifyInit /\ [][NotifyNext]_vars

\* a call that runs alone writes what the one-step handler saves
CallAloneIsUpdateMatchResult ==
  \A c \in 1..MaxCalls :
    (/\ calls[c].pc = "done" /\ calls[c].code = 200
     /\ \A o \in 1..MaxCalls \ {c} : calls[o].pc = "idle")
    => Doc = PreSave(calls[c].doc, now)

TypeOK ==
  /\ status \in {"draft", "active", "completed"}
  /\ now \in 0..MaxTime
  /\ Len(participants) <= MaxTeams
  /\ isCelebrating \in BOOLEAN

\* ------------------------------------------------- claims on the fixtures
numTeams == Len(teamNames)

\* the round count as the specification words it
ClaimedRounds(n) == IF n >= 10 THEN 7 ELSE IF n % 2 = 0 THEN n - 1 ELSE n

TeamsOfMatch(m) == {m.homeTeam, m.awayTeam}

MatchesOfRound(ms, r) == {i \in 1..Len(ms) : ms[i].roundNumber = r}

MeetingsOf(ms, a, b) == {i \in 1..Len(ms) : TeamsOfMatch(ms[i]) = {a, b}}

TeamSet == {teamNames[i] : i \in 1..numTeams}

\* C1: the generated list has exactly R * floor(N/2) matches, R = 7 for
\* N >= 10, N-1 for even N, N for odd N, and the matches are numbered
\* 1, 2, ... in generation order without gap or duplicate.
C1_MatchCountAndNumbering ==
  pc = "done" =>
    /\ Len(newMatches) = ClaimedRounds(numTeams) * (numTeams \div 2)
    /\ \A i \in 1..Len(newMatches) : newMatches[i].matchNumber = i

C1_Witness ==
  /\ pc = "done" /\ numTeams = 11
  /\ Len(newMatches) = 35 /\ newMatches[35].matchNumber = 35

\* C2: within one round no team name appears in two matches, and no match
\* pairs a team with itself.
C2_NoRepeatInRound ==
  \A i \in 1..Len(newMatches) :
    /\ newMatches[i].homeTeam # newMatches[i].awayTeam
    /\ \A j \in 1..Len(newMatches) :
         (i # j /\ newMatches[i].roundNumber = newMatches[j].roundNumber)
           => TeamsOfMatch(newMatches[i]) \cap TeamsOfMatch(newMatches[j]) = {}

C2_Witness ==
  /\ pc = "done" /\ numTeams = 5
  /\ Cardinality(MatchesOfRound(newMatches, 3)) = 2

\* C3 (as claimed): for even N < 10 every unordered pair of distinct teams
\* meets in exactly one match of the schedule.
C3_EachPairMeetsOnce ==
  (pc = "done" /\ numTeams % 2 = 0 /\ numTeams < 10) =>
    \A a \in TeamSet : \A b \in TeamSet :
      a # b => Cardinality(MeetingsOf(newMatches, a, b)) = 1

\* C4: for even N every team is in exactly one match of every round, hence
\* in exactly R matches of the schedule.
C4_EveryTeamEveryRound ==
  (pc = "done" /\ numTeams % 2 = 0) =>
    \A t \in TeamSet :
      /\ \A r \in 1..ClaimedRounds(numTeams) :
           Cardinality({i \in MatchesOfRound(newMatches, r) :
                          t \in TeamsOfMatch(newMatches[i])}) = 1
      /\ Cardinality({i \in 1..Len(newMatches) : t \in TeamsOfMatch(newMatches[i])})
           = ClaimedRounds(numTeams)

C4_Witness ==
  /\ pc = "done" /\ numTeams = 4
  /\ Cardinality({i \in 1..Len(newMatches) : "T2" \in TeamsOfMatch(newMatches[i])}) = 3

\* C5 (as claimed): in every round the first team of the input list is at
\* position 0 of the rotated array, so it is the home team of the round's
\* first match, and the other teams keep their cyclic order behind it.
C5_FirstTeamFixed ==
  pc = "pair" =>
    /\ rotated[1] = teamNames[1]
    /\ (roundMatches # <<>> => /\ roundMatches[1].home = teamNames[1]
                               /\ roundMatches[1].away = rotated[numTeams])
    /\ \E k \in 0..(numTeams - 2) :
         Tail(rotated) = ShiftPushTimes(Tail(teamNames), k)

\* --------------------------------------------------- claims on the league
\* C6 (as claimed): a generateMatches call on a league that already has
\* matches fails and changes nothing of the league, whatever the clock shows.
C6_GenerateIsOneTime ==
  [][(matches # <<>> /\ generateMatches) => UNCHANGED leagueVars]_vars

\* C7 (as claimed): right after a successful generateMatches call the saved
\* league has status active.
C7_ActiveAfterGenerate ==
  lastOp.op = "generateMatches" => status = "active"

\* C8 (as claimed): every team of every saved league has
\* points = 3 * won + drawn and goalDifference = goalsFor - goalsAgainst.
C8_DerivedFieldsConsistent ==
  \A i \in 1..Len(teams) :
    /\ teams[i].points = 3 * teams[i].won + teams[i].drawn
    /\ teams[i].goalDifference = teams[i].goalsFor - teams[i].goalsAgainst

\* the table a set of played matches determines, team by team
PlayedAs(ms, name, side) ==
  {k \in 1..Len(ms) : ms[k].played /\ (IF side = "home" THEN ms[k].homeTeam
                                                        ELSE ms[k].awayTeam) = name}

RECURSIVE SumOver(_, _)
SumOver(S, f) ==
  IF S = {} THEN 0 ELSE LET k == CHOOSE x \in S : TRUE IN f[k] + SumOver(S \ {k}, f)

TableRow(ms, name) ==
  LET H == PlayedAs(ms, name, "home")
      A == PlayedAs(ms, name, "away")
      hg == [k \in 1..Len(ms) |-> ms[k].homeGoals]
      ag == [k \in 1..Len(ms) |-> ms[k].awayGoals]
      w == Cardinality({k \in H : hg[k] > ag[k]}) + Cardinality({k \in A : ag[k] > hg[k]})
      l == Cardinality({k \in H : hg[k] < ag[k]}) + Cardinality({k \in A : ag[k] < hg[k]})
      d == Cardinality({k \in H \cup A : hg[k] = ag[k]})
      gf == SumOver(H, hg) + SumOver(A, ag)
      ga == SumOver(H, ag) + SumOver(A, hg)
  IN  [name |-> name, played |-> Cardinality(H) + Cardinality(A), won |-> w,
       drawn |-> d, lost |-> l, goalsFor |-> gf, goalsAgainst |-> ga,
       goalDifference |-> gf - ga, points |-> 3 * w + d]

\* C9: after a served result submission the team table is the one the played
\* matches determine (whatever the order of the submissions and whatever
\* the table held before), and recomputing it again changes nothing.
C9_RecomputeDeterminedByMatches ==
  lastOp.op = "updateMatchResult" =>
    /\ teams = [i \in 1..Len(teams) |-> TableRow(matches, teams[i].name)]
    /\ RecalcTeams(teams, matches) = teams

C9_Witness ==
  /\ lastOp.op = "updateMatchResult" /\ Len(teams) = 3
  /\ matches[1].played /\ matches[2].played /\ ~matches[3].played
  /\ matches[1].homeGoals > matches[1].awayGoals
  /\ matches[2].homeGoals = matches[2].awayGoals
  /\ teams[1].points = 4 /\ teams[1].played = 2

\* C10: after a match is submitted again, each team's counters count every
\* played match once, and a league whose only played match now stands
\* at a draw shows one draw and no win for both of its teams.
C10_CorrectionCountsOnce ==
  (lastOp.op = "updateMatchResult" /\ lastOp.resubmit # "no") =>
    /\ \A i \in 1..Len(teams) :
         /\ teams[i].played = Cardinality({k \in 1..Len(matches) :
                                 matches[k].played
                                 /\ teams[i].name \in TeamsOfMatch(matches[k])})
         /\ teams[i].won + teams[i].drawn + teams[i].lost = teams[i].played
    /\ \A k \in 1..Len(matches) :
         (PlayedCount(matches) = 1 /\ matches[k].played
            /\ matches[k].homeGoals = matches[k].awayGoals) =>
           \A i \in 1..Len(teams) :
             teams[i].name \in TeamsOfMatch(matches[k]) =>
               /\ teams[i].drawn = 1 /\ teams[i].won = 0 /\ teams[i].lost = 0
               /\ teams[i].points = 1

C10_Witness ==
  /\ lastOp.op = "updateMatchResult" /\ lastOp.resubmit = "changed"
  /\ Len(teams) = 2 /\ Len(matches) = 1
  /\ matches[1].homeGoals = 1 /\ matches[1].awayGoals = 1
  /\ teams[1].drawn = 1 /\ teams[1].won = 0 /\ teams[2].drawn = 1 /\ teams[2].won = 0

\* ----------------------------------------------------- claims on the crown
\* a result submission was served in this step
ServedResult ==
  /\ lastOp'.op = "updateMatchResult"
  /\ <<leagueVars, lastOp>>' # <<leagueVars, lastOp>>

\* leader and second of a table, ordered by points, then goal difference
Leader(ts) == sortedTeams(ts)[1]
Second(ts) == sortedTeams(ts)[2]

\* the clinch condition as the specification words it
ClinchCondition(ts, ms) ==
  /\ Len(ts) >= 2 /\ Len(ms) > 0
  /\ PlayedCount(ms) * 100 >= 95 * Len(ms)
  /\ Leader(ts).points > Second(ts).points + 3 * (Len(ms) - PlayedCount(ms))

\* C11: a result submission on an active league without winner, after which
\* at least 95% of the matches are played and the leader has more points than
\* the second could reach, leaves the leader crowned, whether or not matches
\* remain unplayed.
C11_ClinchCrownsLeader ==
  [][(/\ status = "active" /\ winner.teamName = ""
      /\ ServedResult
      /\ ClinchCondition(teams', matches'))
     => winner'.teamName = Leader(teams').name]_vars

C11_Witness ==
  /\ lastOp.op = "updateMatchResult" /\ Len(teams) = ClinchTeams
  /\ PlayedCount(matches) < Len(matches)
  /\ ClinchCondition(teams, matches)
  /\ winner.teamName = Leader(teams).name

\* C12 (as claimed): the winner goes from empty to set only in a setLeagueWinner
\* call or in a result submission after which the clinch condition holds; no
\* other call or save sets a winner, whatever the clock shows.
C12_OnlyTwoCrowningPaths ==
  [][(winner.teamName = "" /\ winner'.teamName # "")
     => \/ lastOp'.op = "setLeagueWinner"
        \/ lastOp'.op = "updateMatchResult" /\ ClinchCondition(teams', matches')]_vars

\* C13: once a winner is set, only a setLeagueWinner call changes the winner
\* record: result submissions (corrections that change the leader included),
\* standings updates and their saves leave it as it is.
C13_WinnerKeptUntilOverride ==
  [][(winner.teamName # "" /\ winner' # winner) => lastOp'.op = "setLeagueWinner"]_vars

\* a correction made another team the leader, the winner is still the old one
C13_Witness ==
  /\ lastOp.op = "updateMatchResult" /\ lastOp.resubmit = "changed"
  /\ winner.teamName # "" /\ Len(teams) >= 2
  /\ Leader(teams).points > Second(teams).points
  /\ Leader(teams).name # winner.teamName

\* C14: a served setLeagueWinner(teamName) leaves winner.teamName = teamName,
\* whether or not a winner was set and whatever the standings say, and
\* appends exactly one entry, for teamName, to previousWinners.
C14_SetWinnerOverwritesAndRecords ==
  [][\A n \in CrownCandidates :
       (/\ lastOp'.op = "setLeagueWinner"
        /\ ParticipantIndex(participants, n) # 0
        /\ setLeagueWinner(n))
       => /\ winner'.teamName = n
          /\ Len(previousWinners') = Len(previousWinners) + 1
          /\ SubSeq(previousWinners', 1, Len(previousWinners)) = previousWinners
          /\ previousWinners'[Len(previousWinners')].teamName = n]_vars

\* the admin crowned B although A had clinched the league
C14_Witness ==
  /\ lastOp.op = "setLeagueWinner" /\ Len(teams) = 2
  /\ ClinchCondition(teams, matches) /\ Leader(teams).name = "A"
  /\ winner.teamName = "B"
  /\ previousWinners = <<[teamName |-> "B", userId |-> 2]>>

\* C15 (as claimed): whenever a winner is set, previousWinners is not empty
\* and its last entry names the current winner.
C15_EveryCrowningRecorded ==
  winner.teamName # "" =>
    /\ previousWinners # <<>>
    /\ previousWinners[Len(previousWinners)].teamName = winner.teamName

\* a call crowned a winner in this step
CrowningCall ==
  \/ lastOp'.op = "setLeagueWinner" /\ <<leagueVars, lastOp>>' # <<leagueVars, lastOp>>
  \/ lastOp'.op = "updateMatchResult" /\ winner.teamName = "" /\ winner'.teamName # ""

\* C16 (as claimed): after every call that crowns a winner the saved league
\* has status completed and is celebrating, with celebrationEnds after the
\* time of the crowning.
C16_CrownedIsCompleted ==
  [][CrowningCall => /\ status' = "completed"
                     /\ isCelebrating'
                     /\ celebrationEnds' > now]_vars

\* C17 (as claimed): a result submission on a league whose status is draft
\* or completed changes no match and no row of the table.
C17_ResultsOnlyWhileActive ==
  [][(lastOp'.op = "updateMatchResult" /\ status \in {"draft", "completed"})
     => UNCHANGED <<matches, teams>>]_vars

\* C18 (as claimed): the saved status only moves from draft to active and
\* from active to completed.
C18_StatusMovesForward ==
  [][status' # status
     => \/ status = "draft" /\ status' = "active"
        \/ status = "active" /\ status' = "completed"]_vars

\* --------------------------------------------------- claims on the calls
\* the calls that were answered 200
Served == {c \in 1..MaxCalls : calls[c].pc = "done" /\ calls[c].code = 200}

\* the orders in which a set of calls can be served one after the other
Orders(S) ==
  {o \in [1..Cardinality(S) -> S] : \A i, j \in 1..Cardinality(S) : i # j => o[i] # o[j]}

\* the league the calls started from: scheduled on its start date, no result
ScheduledDoc ==
  PreSave([participants |-> participants,
           teams |-> [i \in 1..Len(participants) |->
                        Team(participants[i].teamName, ZeroStats)],
           matches |-> ScheduleOf([i \in 1..Len(participants) |->
                                     participants[i].teamName]),
           status |-> "active", winner |-> NoWinner, isCelebrating |-> FALSE,
           celebrationEnds |-> NoDate, previousWinners |-> <<>>], StartDate)

\* the league after the calls of o were served one at a time, in this order
RECURSIVE SerialFrom(_, _, _)
SerialFrom(d, o, i) ==
  IF i > Len(o) THEN d
  ELSE LET id == calls[o[i]].matchId
           m == calls[o[i]].doc.matches[id]
       IN  SerialFrom(PreSave(ComputedDoc(d, id, m.homeGoals, m.awayGoals, now), now),
                      o, i + 1)

\* C19 (as claimed): when no call is between its read and its write, the
\* saved league is the one some serial order of the served calls produces:
\* every served result is in the match list and the table is the recompute
\* over the saved matches.
C19_CallsSerialized ==
  (\A c \in 1..MaxCalls : calls[c].pc # "saving") =>
    /\ \E o \in Orders(Served) : Doc = SerialFrom(ScheduledDoc, o, 1)
    /\ \A c \in Served : matches[calls[c].matchId].played
    /\ teams = RecalcTeams(teams, matches)

\* C20 (as claimed): every message broadcast belongs to a call whose save
\* has succeeded.
C20_EventsAfterCommit ==
  \A k \in 1..Len(events) :
    /\ calls[events[k].call].pc = "done"
    /\ calls[events[k].call].code = 200

\* ------------------------------------------- claims on the notifications
\* the messages of call c that did not reach every registered connection
FailedEvents(c) == {k \in 1..Len(events) : events[k].call = c /\ events[k].failed > 0}

\* C21: when a message of a result submission does not reach a subscriber
\* (ws.send throws, or the registered connection is not open), the call is
\* still answered 200 and the stored league is the one its save wrote.
C21_NotificationOutsideTransaction ==
  (calls[1].pc = "done" /\ FailedEvents(1) # {})
  => /\ calls[1].code = 200
     /\ lastOp = [op |-> "updateMatchResult", code |-> 200, resubmit |-> "no"]
     /\ Doc = PreSave(calls[1].doc, now)
     /\ Doc.matches[1].played

\* the MATCH_UPDATED message met a send that threw and an entry that was not
\* open
C21_Witness ==
  /\ calls[1].pc = "done"
  /\ \E k \in FailedEvents(1) :
       /\ events[k].type = "MATCH_UPDATED"
       /\ events[k].thrown > 0 /\ events[k].failed > events[k].thrown

\* ---------------------------------------------- claims on the rejections
ApprovedCount == Len(SelectSeq(participants, LAMBDA p : p.status = "approved"))

\* the step answered with an error and left the league as it was
TurnedDown(op, codes) ==
  /\ lastOp'.op = op /\ lastOp'.code \in codes
  /\ UNCHANGED leagueVars

\* C22: a generateMatches call with fewer than 2 approved participants, an
\* updateMatchResult call with a negative or missing score or an unknown
\* match, and a setLeagueWinner call for a name nobody has are each answered
\* with an error and change no field of the league; and no step that is
\* answered 400 or 404 changes the league.
C22_RejectedCallsChangeNothing ==
  [][/\ (ApprovedCount < 2 /\ generateMatches) => TurnedDown("generateMatches", {400})
     /\ \A r \in BadRequests(matches) :
          updateMatchResult(r[1], r[2][1], r[2][2])
            => TurnedDown("updateMatchResult", {400, 404})
     /\ setLeagueWinner("Nobody") => TurnedDown("setLeagueWinner", {404})
     /\ lastOp'.code \in {400, 404} => UNCHANGED leagueVars]_vars

\* a result with a negative score was turned down in a league that has a
\* played match
C22_Witness ==
  /\ lastOp = [op |-> "updateMatchResult", code |-> 400, resubmit |-> "no"]
  /\ PlayedCount(matches) > 0

\* C23 (as claimed): a winner that is set names a team of the league's team
\* list, because setLeagueWinner turns down every name the list lacks.
C23_WinnerIsATeam ==
  winner.teamName # "" => TeamIndex(teams, winner.teamName) # 0

\* -------------------------------------------- claims on the celebration
\* C24 (as claimed): once the clock has passed celebrationEnds, every read
\* and every write of the league leaves it with isCelebrating = false, and
\* getCelebratingWinners returns no league whose celebrationEnds is not
\* after the current time.
C24_ExpiryOnEveryAccess ==
  /\ (lastOp.op # "tick" /\ celebrationEnds # NoDate /\ now > celebrationEnds)
       => ~isCelebrating
  /\ \A d \in getCelebratingWinners(Doc, now) : d.celebrationEnds > now

\* ------------------------------------------------ claims on the history
IsPrefix(a, b) == Len(a) <= Len(b) /\ SubSeq(b, 1, Len(a)) = a

TotalOf(f) == SumOver(1..Len(teams), [i \in 1..Len(teams) |-> teams[i][f]])

C27_SmallLeagueClinchNeedsAllPlayed ==
  (Len(matches) < 20 /\ winner.teamName # "")
    => PlayedCount(matches) = Len(matches)

\* two of three matches are played and the leader is out of reach of the
\* second, yet nobody is crowned
C27_Witness ==
  /\ lastOp.op = "updateMatchResult" /\ now <= EndDate
  /\ Len(matches) = 3 /\ PlayedCount(matches) = 2
  /\ Leader(teams).points > Second(teams).points + 3
  /\ winner.teamName = "" /\ status = "active"

\* C28: a result submission on a league without winner, after which every
\* match is played and the first two teams of the table are level on points,
\* crowns nobody, whatever their goal differences (the league's end date
\* not being passed); so the winner stays empty as long as the submissions
\* keep the two level.
C28_LevelOnPointsCrownsNobody ==
  [][(/\ lastOp'.op = "updateMatchResult" /\ now <= EndDate
      /\ winner.teamName = ""
      /\ PlayedCount(matches') = Len(matches')
      /\ Len(teams') >= 2
      /\ Leader(teams').points = Second(teams').points)
     => winner'.teamName = ""]_vars

\* every match is played, the first two are level on points, the first has
\* the better goal difference, and there is no winner
C28_Witness ==
  /\ lastOp.op = "updateMatchResult"
  /\ PlayedCount(matches) = Len(matches) /\ Len(teams) >= 2
  /\ Leader(teams).points = Second(teams).points
  /\ Leader(teams).goalDifference > Second(teams).goalDifference
  /\ winner.teamName = "" /\ status = "active"

\* ------------------------------------------- claims on the odd fixtures
\* rounds of the schedule in which a team has no match
ByeRounds(ms, t, rounds) ==
  {r \in 1..rounds : \A i \in MatchesOfRound(ms, r) : t \notin TeamsOfMatch(ms[i])}

\* C29 (as claimed): for odd N < 10 the schedule of N rounds leaves every
\* team without match in exactly one round, so every team plays N - 1
\* matches, and no two teams meet more than once.
C29_OddFixturesOneBye ==
  (pc = "done" /\ numTeams % 2 = 1 /\ numTeams < 10) =>
    /\ \A t \in TeamSet :
         /\ Cardinality(ByeRounds(newMatches, t, numTeams)) = 1
         /\ Cardinality({i \in 1..Len(newMatches) : t \in TeamsOfMatch(newMatches[i])})
              = numTeams - 1
    /\ \A a, b \in TeamSet :
         a # b => Cardinality(MeetingsOf(newMatches, a, b)) <= 1

\* ------------------------------------------------ claims on the registry
\* the connection a user opened last
LatestOf(u) ==
  LET own == {k \in 1..Len(sockets) : sockets[k].userId = u}
  IN  IF own = {} THEN 0 ELSE CHOOSE k \in own : \A j \in own : j <= k

\* C30 (as claimed, for the connection a user opened last and while no send
\* has thrown): an authenticated connection that is open is the entry of its
\* user in connectedClients, and so is sent the broadcasts; this is so after
\* an earlier connection of the same user has closed.
C30_OpenConnectionIsRegistered ==
  (\A i \in 1..Len(events) : events[i].thrown = 0) =>
    \A k \in 1..Len(sockets) :
      (sockets[k].readyState = "OPEN" /\ k = LatestOf(sockets[k].userId))
        => connectedClients[sockets[k].userId] = k

====
